---- MODULE Spec2Model ----
(***************************************************************************)
(* A model of script.py: the command line weather poller and exporter.     *)
(*                                                                         *)
(* Cyrillic labels and notices of the program are written here in a Latin  *)
(* transliteration, letter for letter (the north-west label keeps the      *)
(* Latin capital C the source has as its first letter).                    *)
(* Decimal numbers are kept in hundredths: 0.25 is 25, 1 is 100.           *)
(***************************************************************************)
EXTENDS Integers, Sequences, FiniteSets, TLC

VARIABLES
    frequency,          \* args.frequency: [given, text]; text is the characters typed
    export_to_xlsx,     \* args.excel
    pc,                 \* position of the main coroutine
    connected,          \* the asyncpg connection is open
    tableExists,        \* weather_data exists in the database
    table,              \* the rows of weather_data
    nextId,             \* next value of the serial sequence behind id
    response,           \* outcome of the last session.get / response.json
    weather_data,       \* the record parse_weather_data built last
    records,            \* what async_get_ten_last_records returned
    worker,             \* the executor thread running export_data_to_xlsx_file
    workerArg,          \* the data handed to that thread
    xlsxFile,           \* weather_data.xlsx on disk
    stdout,             \* notices printed
    exitKind,           \* how main ended: running, return, SystemExit, exception
    exitMessage,        \* the message of sys.exit or the uncaught exception
    exitStatus,         \* the exit status of the process, -1 while it runs
    cycles,             \* completed iterations of the ingestion loop
    events,             \* history: the effects of the run in order
    table0,             \* history: the rows the process was started on
    tableExists0,       \* history: whether the table existed at start
    convFn,             \* translator applied (translator specification)
    convArg,            \* its argument
    convRet             \* its result

vars == <<frequency, export_to_xlsx, pc, connected, tableExists, table, nextId,
          response, weather_data, records, worker, workerArg, xlsxFile, stdout,
          exitKind, exitMessage, exitStatus, cycles, events, table0,
          tableExists0, convFn, convArg, convRet>>

mainVars == <<frequency, export_to_xlsx, pc, connected, tableExists, table, nextId,
              response, weather_data, records, worker, workerArg, xlsxFile, stdout,
              exitKind, exitMessage, exitStatus, cycles, events, table0,
              tableExists0>>

convVars == <<convFn, convArg, convRet>>

(***************************************************************************)
(* Bounds of the model.                                                    *)
(***************************************************************************)
MaxCycles == 2          \* iterations of the ingestion loop explored
MaxInitRows == 11       \* rows the database may hold at start

(***************************************************************************)
(* Python values as they come out of the JSON body.                        *)
(***************************************************************************)
None == "None"

JStr(s) == [t |-> "str", v |-> s]
JInt(n) == [t |-> "int", v |-> 100 * n]
JFloat(h) == [t |-> "float", v |-> h]
JBool(b) == [t |-> "bool", v |-> IF b THEN 100 ELSE 0]
JNull == [t |-> "null", v |-> 0]

IsNumber(a) == a.t \in {"int", "float", "bool"}

\* == of Python on these values: numbers compare by value across int, float
\* and bool; a string equals only an equal string.
PyEq(a, b) ==
    IF IsNumber(a) /\ IsNumber(b) THEN a.v = b.v
    ELSE IF a.t = "str" /\ b.t = "str" THEN a.v = b.v
    ELSE a.t = "null" /\ b.t = "null"

(***************************************************************************)
(* The translators.  A match statement tries its literal patterns in order *)
(* with ==, and a function that falls off its end returns None.            *)
(***************************************************************************)
convert_wind_direction_default(wind_direction) ==
    IF PyEq(wind_direction, JStr("nw")) THEN "Cevero-zapadnoe"
    ELSE IF PyEq(wind_direction, JStr("n")) THEN "Severnoe"
    ELSE IF PyEq(wind_direction, JStr("ne")) THEN "Severno-vostochnoe"
    ELSE IF PyEq(wind_direction, JStr("e")) THEN "Vostochnoe"
    ELSE IF PyEq(wind_direction, JStr("se")) THEN "Yugo-vostochnoe"
    ELSE IF PyEq(wind_direction, JStr("s")) THEN "Yuzhnoe"
    ELSE IF PyEq(wind_direction, JStr("sw")) THEN "Yugo-zapadnoe"
    ELSE IF PyEq(wind_direction, JStr("w")) THEN "Zapadnoe"
    ELSE "Shtil'"

convert_wind_direction(wind_direction) ==
    IF PyEq(wind_direction, JStr("nw")) THEN "Cevero-zapadnoe"
    ELSE IF PyEq(wind_direction, JStr("n")) THEN "Severnoe"
    ELSE IF PyEq(wind_direction, JStr("ne")) THEN "Severno-vostochnoe"
    ELSE IF PyEq(wind_direction, JStr("e")) THEN "Vostochnoe"
    ELSE IF PyEq(wind_direction, JStr("se")) THEN "Yugo-vostochnoe"
    ELSE IF PyEq(wind_direction, JStr("s")) THEN "Yuzhnoe"
    ELSE IF PyEq(wind_direction, JStr("sw")) THEN "Yugo-zapadnoe"
    ELSE IF PyEq(wind_direction, JStr("w")) THEN "Zapadnoe"
    ELSE IF PyEq(wind_direction, JStr("c")) THEN "Shtil'"
    ELSE None

convert_precipitation_type(precipitation_type) ==
    IF PyEq(precipitation_type, JInt(0)) THEN "Bez osadkov"
    ELSE IF PyEq(precipitation_type, JInt(1)) THEN "Dozhd'"
    ELSE IF PyEq(precipitation_type, JInt(2)) THEN "Dozhd' so snegom"
    ELSE IF PyEq(precipitation_type, JInt(3)) THEN "Sneg"
    ELSE IF PyEq(precipitation_type, JInt(4)) THEN "Grad"
    ELSE None

convert_precipitation_strength(precipitation_strength) ==
    IF PyEq(precipitation_strength, JInt(0)) THEN "Bez osadkov"
    ELSE IF PyEq(precipitation_strength, JFloat(25)) THEN "Slabye osadki"
    ELSE IF PyEq(precipitation_strength, JFloat(50)) THEN "Ryadovye osadki"
    ELSE IF PyEq(precipitation_strength, JFloat(75)) THEN "Sil'nye osadki"
    ELSE IF PyEq(precipitation_strength, JInt(1)) THEN "Ochen' sil'nye osadki"
    ELSE None

(***************************************************************************)
(* float(x) on a JSON value: a number converts to itself, a string is      *)
(* parsed as a decimal, anything else raises.                              *)
(***************************************************************************)
DecimalText == [s \in {"5.5", "3.2", "745"} |->
                 IF s = "5.5" THEN 550 ELSE IF s = "3.2" THEN 320 ELSE 74500]

PyFloat(a) ==
    IF IsNumber(a) THEN [ok |-> TRUE, val |-> a.v]
    ELSE IF a.t = "str" /\ a.v \in DOMAIN DecimalText
         THEN [ok |-> TRUE, val |-> DecimalText[a.v]]
    ELSE [ok |-> FALSE, val |-> 0]

\* A dict keeps its keys in insertion order: a sequence of key/value pairs.
Item(k, v) == [key |-> k, value |-> v]

FieldNames == <<"temperature", "wind_direction", "wind_speed", "pressure",
                "precipitation_type", "precipitation_strength">>

\* Positions of the three translated fields in the record.
LabelPositions == {2, 5, 6}

parse_weather_data_dropping(data) ==
    LET all == << Item("temperature", PyFloat(data.temp).val),
                  Item("wind_direction", convert_wind_direction(data.wind_dir)),
                  Item("wind_speed", PyFloat(data.wind_speed).val),
                  Item("pressure", PyFloat(data.pressure_mm).val),
                  Item("precipitation_type", convert_precipitation_type(data.prec_type)),
                  Item("precipitation_strength",
                       convert_precipitation_strength(data.prec_strength)) >>
        Keep(i) == i \notin LabelPositions \/ all[i].value # None
        RECURSIVE Filter(_)
        Filter(i) == IF i > 6 THEN << >>
                     ELSE (IF Keep(i) THEN << all[i] >> ELSE << >>) \o Filter(i + 1)
    IN  Filter(1)

parse_weather_data(data) ==
    << Item("temperature", PyFloat(data.temp).val),
       Item("wind_direction", convert_wind_direction(data.wind_dir)),
       Item("wind_speed", PyFloat(data.wind_speed).val),
       Item("pressure", PyFloat(data.pressure_mm).val),
       Item("precipitation_type", convert_precipitation_type(data.prec_type)),
       Item("precipitation_strength",
            convert_precipitation_strength(data.prec_strength)) >>

\* float() of the three numeric fields raises before anything is returned.
ParseRaises(data) ==
    \/ ~PyFloat(data.temp).ok
    \/ ~PyFloat(data.wind_speed).ok
    \/ ~PyFloat(data.pressure_mm).ok

(***************************************************************************)
(* int(frequency): surrounding blanks are dropped, one sign is allowed,    *)
(* and what is left must be one or more decimal digits; anything else      *)
(* raises ValueError.  (Underscores between digits are not in the          *)
(* alphabet of the arguments explored.)                                    *)
(***************************************************************************)
DigitValue == [c \in {"0", "1", "2", "3", "4", "5", "6", "7", "8", "9"} |->
                CASE c = "0" -> 0 [] c = "1" -> 1 [] c = "2" -> 2 [] c = "3" -> 3
                  [] c = "4" -> 4 [] c = "5" -> 5 [] c = "6" -> 6 [] c = "7" -> 7
                  [] c = "8" -> 8 [] c = "9" -> 9]

RECURSIVE StripLeft(_)
StripLeft(s) == IF Len(s) > 0 /\ s[1] = " " THEN StripLeft(Tail(s)) ELSE s

RECURSIVE StripRight(_)
StripRight(s) ==
    IF Len(s) > 0 /\ s[Len(s)] = " " THEN StripRight(SubSeq(s, 1, Len(s) - 1)) ELSE s

RECURSIVE DigitsValue(_)
DigitsValue(s) ==
    IF Len(s) = 0 THEN 0
    ELSE 10 * DigitsValue(SubSeq(s, 1, Len(s) - 1)) + DigitValue[s[Len(s)]]

PyInt(text) ==
    LET s == StripRight(StripLeft(text))
        signed == Len(s) > 0 /\ s[1] \in {"+", "-"}
        body == IF signed THEN Tail(s) ELSE s
        valid == Len(body) > 0 /\ \A i \in 1..Len(body) : body[i] \in DOMAIN DigitValue
    IN  IF ~valid THEN [ok |-> FALSE, val |-> 0]
        ELSE [ok |-> TRUE,
              val |-> IF signed /\ s[1] = "-" THEN 0 - DigitsValue(body)
                      ELSE DigitsValue(body)]

\* Truth value of args.frequency: None and the empty string are false.
Truthy(f) == f.given /\ Len(f.text) > 0

NotGiven == [given |-> FALSE, text |-> << >>]
Given(text) == [given |-> TRUE, text |-> text]

\* The values of -f explored: absent, empty, 1, 15, blank-padded 2, 0, -1,
\* and two texts int() rejects.
FrequencyArgs ==
    { NotGiven, Given(<< >>), Given(<<"1">>), Given(<<"1", "5">>),
      Given(<<" ", "2">>), Given(<<"0">>), Given(<<"-", "1">>),
      Given(<<"a">>), Given(<<"1", ".", "5">>) }

(***************************************************************************)
(* The weather_data table.  A row has the serial id and the six columns;   *)
(* ins is a history field, the ordinal of the insertion that made the row. *)
(***************************************************************************)
Row(id, v, ins) ==
    [id |-> id, temperature |-> v[1], wind_direction |-> v[2], wind_speed |-> v[3],
     pressure |-> v[4], precipitation_type |-> v[5], precipitation_strength |-> v[6],
     ins |-> ins]

\* The rows earlier runs left: the i-th insertion, with its own temperature.
\* A sequence value may have been used up without a row (a rolled back
\* insert): with a gap, the ids go 1, 2, 4, 5, ...
StoredId(i, gap) == IF gap /\ i >= 3 THEN i + 1 ELSE i

StoredRow(i, gap) ==
    Row(StoredId(i, gap),
        <<100 * i, "Severnoe", 320, 74500, "Bez osadkov", "Bez osadkov">>, i)

StoredTable(n, gap) == { StoredRow(i, gap) : i \in 1..n }

\* asyncio.sleep(int(frequency) * 60)
SecondsPerMinute == 60

\* if records_count < 10
MinRecords == 10

\* LIMIT 10
LimitRows == 10

\* SELECT count(*) FROM weather_data
async_get_records_count(tbl) == Cardinality(tbl)

\* ORDER BY ID DESC LIMIT n: id is the primary key, so the i-th row is the
\* one with exactly i - 1 rows of a greater id.
OrderByIdDescLimit(tbl, n) ==
    [i \in 1..(IF Cardinality(tbl) < n THEN Cardinality(tbl) ELSE n) |->
        CHOOSE r \in tbl : Cardinality({q \in tbl : q.id > r.id}) = i - 1]

\* ORDER BY ID LIMIT n: the oldest rows first.
OrderByIdAscLimit(tbl, n) ==
    [i \in 1..(IF Cardinality(tbl) < n THEN Cardinality(tbl) ELSE n) |->
        CHOOSE r \in tbl : Cardinality({q \in tbl : q.id < r.id}) = i - 1]

\* SELECT temperature, wind_direction, wind_speed, pressure,
\*        precipitation_type, precipitation_strength: list(res.values())
SelectedColumns(r) ==
    << r.temperature, r.wind_direction, r.wind_speed, r.pressure,
       r.precipitation_type, r.precipitation_strength >>

async_get_ten_last_records_oldest(tbl) ==
    IF async_get_records_count(tbl) < MinRecords THEN << >>
    ELSE LET rows == OrderByIdAscLimit(tbl, LimitRows)
         IN  [i \in 1..Len(rows) |-> SelectedColumns(rows[i])]

async_get_ten_last_records(tbl) ==
    IF async_get_records_count(tbl) < MinRecords THEN << >>
    ELSE LET rows == OrderByIdDescLimit(tbl, LimitRows)
         IN  [i \in 1..Len(rows) |-> SelectedColumns(rows[i])]

headers == <<"Temperatura", "Napravlenie vetra", "Skorost' vetra",
             "Atmosfernoe davlenie", "Tip osadkov", "Kolichestvo osadkov">>

async_get_data_for_xlsx_file(tbl) ==
    LET recs == async_get_ten_last_records(tbl)
    IN  IF Len(recs) = 0 THEN << >> ELSE << headers >> \o recs

\* INSERT INTO weather_data (temperature, ..., precipitation_strength)
\* VALUES ($1, ..., $6) with values = list(data.values()).  The statement
\* names six columns, so it fails unless six values are given.
InsertValues(data) == [i \in 1..Len(data) |-> data[i].value]

InsertedRow(data, id, ins) == Row(id, InsertValues(data), ins)

\* The workbook that export_data_to_xlsx_file saves.
NoFile == [exists |-> FALSE, title |-> "", rows |-> << >>, bold |-> {}]

export_data_to_xlsx_file(data) ==
    [exists |-> TRUE, title |-> "Dannye", rows |-> data,
     bold |-> { <<1, c>> : c \in 1..6 }]

(***************************************************************************)
(* Messages.                                                               *)
(***************************************************************************)
UsageMsg == "Dlya raboty skripta dolzhen byt' ukazan odin iz flagov: --excel, --frequency <int>"
ConfigMsg == "Oshibka v konfiguratsii dannykh BD ili raspolozheniya fayla .env."
WeatherServiceMsg == "Oshibka na storone servisa s dannymi o pogode."
SuccessNotice == "Eksport dannykh v fayl weather_data.xlsx uspeshno vypolnen."
NotEnoughNotice == "Kolichestvo zapisey v BD men'she 10. Eksport dannykh ne vypolnen."
InsertedNotice == "V BD dobavlena novaya zapis'"

UndefinedTableError == "asyncpg.UndefinedTableError: relation weather_data does not exist"
FactKeyError == "KeyError: 'fact'"
FloatError == "TypeError: float() argument must be a string or a real number"
IntValueError == "ValueError: invalid literal for int() with base 10"

(***************************************************************************)
(* What session.get can do: hand back a response, or raise.  Of aiohttp's  *)
(* errors, TooManyRedirects is a ClientResponseError; ClientConnectorError *)
(* and ServerTimeoutError (the connection could not be made, or timed out) *)
(* are not.                                                                *)
(***************************************************************************)
SessionGetErrors == {"TooManyRedirects", "ClientConnectorError", "ServerTimeoutError"}

TransportErrors == {"ClientConnectorError", "ServerTimeoutError"}

\* except aiohttp.ClientResponseError
IsClientResponseError(e) == e \in {"ClientResponseError", "TooManyRedirects"}

\* The "fact" objects explored: the sample of the documentation, one with an
\* unknown code in each translated field, and one whose temperature is null.
Fact(temp, ws, pr, wd, pt, ps) ==
    [temp |-> temp, wind_speed |-> ws, pressure_mm |-> pr, wind_dir |-> wd,
     prec_type |-> pt, prec_strength |-> ps]

Facts ==
    << Fact(JStr("5.5"), JStr("3.2"), JStr("745"), JStr("n"), JInt(0), JInt(0)),
       Fact(JFloat(-150), JInt(4), JInt(750), JStr("nne"), JInt(1), JFloat(25)),
       Fact(JInt(21), JFloat(10), JInt(760), JStr("c"), JInt(7), JFloat(50)),
       Fact(JInt(3), JFloat(770), JInt(739), JStr("sw"), JInt(3), JFloat(30)),
       Fact(JNull, JInt(1), JInt(745), JStr("n"), JInt(0), JInt(0)) >>

NoResponse == [kind |-> "none", fact |-> 0]

Ev(op, arg) == [op |-> op, arg |-> arg]

ArgumentCountError == "asyncpg.InterfaceError: the server expects 6 arguments for this query"

(***************************************************************************)
(* The state after construction: the arguments typed, and the database the *)
(* process is started on (no table yet, or the rows earlier runs left).    *)
(***************************************************************************)
InitMain ==
    /\ frequency \in FrequencyArgs
    /\ export_to_xlsx \in BOOLEAN
    /\ pc = "start"
    /\ connected = FALSE
    /\ tableExists \in BOOLEAN
    /\ \E n \in 0..MaxInitRows, gap \in BOOLEAN :
          IF tableExists
          THEN table = StoredTable(n, gap) /\ nextId = StoredId(n, gap) + 1
          ELSE n = 0 /\ ~gap /\ table = {} /\ nextId = 1
    /\ table0 = table
    /\ tableExists0 = tableExists
    /\ response = NoResponse
    /\ weather_data = << >>
    /\ records = << >>
    /\ worker = "idle"
    /\ workerArg = << >>
    /\ xlsxFile = NoFile
    /\ stdout = << >>
    /\ exitKind = "running"
    /\ exitMessage = ""
    /\ exitStatus = -1
    /\ cycles = 0
    /\ events = << >>

Init ==
    /\ InitMain
    /\ convFn = "none" /\ convArg = JNull /\ convRet = None

\* main stops: by return, by sys.exit(message) or by an exception nobody catches.
Terminate(kind, msg) ==
    /\ pc' = "finishing"
    /\ exitKind' = kind
    /\ exitMessage' = msg

Running == UNCHANGED <<exitKind, exitMessage>>

\* if not frequency and export_to_xlsx: the second "not" left out
NoFlagSecondNotDropped(f, e) == ~Truthy(f) /\ e

\* if not frequency and not export_to_xlsx
NoFlag(f, e) == ~Truthy(f) /\ ~e

ArgparseIntError == "argument -f/--frequency: invalid int value"

\* get_cli_args with add_argument('-f', type=int): the text is converted when
\* the arguments are parsed, and a text that is no integer ends the process there.
GetCliArgsTyped ==
    /\ pc = "start"
    /\ IF frequency.given /\ ~PyInt(frequency.text).ok
       THEN Terminate("SystemExit", ArgparseIntError)
       ELSE IF NoFlag(frequency, export_to_xlsx)
            THEN Terminate("SystemExit", UsageMsg)
            ELSE pc' = "connect" /\ Running
    /\ UNCHANGED <<frequency, export_to_xlsx, connected, tableExists, table, nextId,
                   response, weather_data, records, worker, workerArg, xlsxFile,
                   stdout, exitStatus, cycles, events, table0, tableExists0>>

\* main up to the usage check
GetCliArgs ==
    /\ pc = "start"
    /\ IF NoFlag(frequency, export_to_xlsx)
       THEN Terminate("SystemExit", UsageMsg)
       ELSE pc' = "connect" /\ Running
    /\ UNCHANGED <<frequency, export_to_xlsx, connected, tableExists, table, nextId,
                   response, weather_data, records, worker, workerArg, xlsxFile,
                   stdout, exitStatus, cycles, events, table0, tableExists0>>

\* connection = await async_get_connection()
AsyncGetConnection ==
    /\ pc = "connect"
    /\ \E ok \in BOOLEAN :
          IF ok
          THEN /\ connected' = TRUE
               /\ pc' = IF export_to_xlsx THEN "export" ELSE "ingest"
               /\ Running
          ELSE /\ connected' = FALSE
               /\ Terminate("SystemExit", ConfigMsg)
    /\ events' = Append(events, Ev("connect", 0))
    /\ UNCHANGED <<frequency, export_to_xlsx, tableExists, table, nextId, response,
                   weather_data, records, worker, workerArg, xlsxFile, stdout,
                   exitStatus, cycles, table0, tableExists0>>

\* if export_to_xlsx: ... ; the executor call is not awaited, so the thread
\* is only started here and the notice is printed at once.
ExportBranch ==
    /\ pc = "export"
    /\ events' = Append(events, Ev("export", 0))
    /\ IF ~tableExists
       THEN /\ Terminate("exception", UndefinedTableError)
            /\ UNCHANGED <<records, worker, workerArg, stdout>>
       ELSE LET data_for_xlsx_file == async_get_data_for_xlsx_file(table)
            IN  /\ records' = async_get_ten_last_records(table)
                /\ IF Len(data_for_xlsx_file) > 0
                   THEN /\ worker' = "running"
                        /\ workerArg' = data_for_xlsx_file
                        /\ stdout' = Append(stdout, SuccessNotice)
                   ELSE /\ stdout' = Append(stdout, NotEnoughNotice)
                        /\ UNCHANGED <<worker, workerArg>>
                /\ pc' = "ingest"
                /\ Running
    /\ UNCHANGED <<frequency, export_to_xlsx, connected, tableExists, table, nextId,
                   response, weather_data, xlsxFile, exitStatus, cycles, table0,
                   tableExists0>>

\* The executor thread: export_data_to_xlsx_file(data) up to workbook.save,
\* or an error of the write, which stays in a future nobody reads.
ExportWorker ==
    /\ worker = "running"
    /\ \E ok \in BOOLEAN :
          IF ok
          THEN /\ xlsxFile' = export_data_to_xlsx_file(workerArg)
               /\ worker' = "saved"
               /\ events' = Append(events, Ev("xlsx_saved", 0))
          ELSE /\ worker' = "failed"
               /\ UNCHANGED <<xlsxFile, events>>
    /\ UNCHANGED <<frequency, export_to_xlsx, pc, connected, tableExists, table,
                   nextId, response, weather_data, records, workerArg, stdout,
                   exitKind, exitMessage, exitStatus, cycles, table0, tableExists0>>

\* if frequency, with the test left out
IngestAlways(f) == TRUE

\* if frequency
IngestWanted(f) == Truthy(f)

\* if frequency: await async_create_table(connection); otherwise main returns
AsyncCreateTable ==
    /\ pc = "ingest"
    /\ IF IngestWanted(frequency)
       THEN /\ tableExists' = TRUE
            /\ events' = Append(events, Ev("create_table", 0))
            /\ pc' = "fetch"
            /\ Running
       ELSE /\ Terminate("return", "")
            /\ UNCHANGED <<tableExists, events>>
    /\ UNCHANGED <<frequency, export_to_xlsx, connected, table, nextId, response,
                   weather_data, records, worker, workerArg, xlsxFile, stdout,
                   exitStatus, cycles, table0, tableExists0>>

\* weather_data = await async_get_weather_data(latitude, longitude, api_key)
AsyncGetWeatherData ==
    /\ pc = "fetch"
    /\ cycles < MaxCycles
    /\ events' = Append(events, Ev("fetch", 0))
    /\ \/ \E e \in SessionGetErrors :
             /\ response' = [kind |-> e, fact |-> 0]
             /\ IF IsClientResponseError(e)
                THEN Terminate("SystemExit", WeatherServiceMsg)
                ELSE Terminate("exception", e)
             /\ UNCHANGED weather_data
       \/ /\ response' = [kind |-> "no_fact", fact |-> 0]
          /\ Terminate("exception", FactKeyError)
          /\ UNCHANGED weather_data
       \/ \E i \in 1..Len(Facts) :
             /\ response' = [kind |-> "response", fact |-> i]
             /\ IF ParseRaises(Facts[i])
                THEN /\ Terminate("exception", FloatError)
                     /\ UNCHANGED weather_data
                ELSE /\ weather_data' = parse_weather_data(Facts[i])
                     /\ pc' = "insert"
                     /\ Running
    /\ UNCHANGED <<frequency, export_to_xlsx, connected, tableExists, table, nextId,
                   records, worker, workerArg, xlsxFile, stdout, exitStatus, cycles,
                   table0, tableExists0>>

\* the new row's ins: one more than the newest row's
NextIns(tbl) == IF tbl = {} THEN 1
                ELSE 1 + (CHOOSE m \in {r.ins : r \in tbl} :
                              \A k \in {r.ins : r \in tbl} : k <= m)

\* await async_insert_data_into_db(connection, weather_data)
AsyncInsertDataIntoDb ==
    /\ pc = "insert"
    /\ IF Len(weather_data) = Len(FieldNames)
       THEN /\ table' = table \cup {InsertedRow(weather_data, nextId, NextIns(table))}
            /\ nextId' = nextId + 1
            /\ events' = Append(events, Ev("insert", 0))
            /\ pc' = "print"
            /\ Running
       ELSE /\ Terminate("exception", ArgumentCountError)
            /\ UNCHANGED <<table, nextId, events>>
    /\ UNCHANGED <<frequency, export_to_xlsx, connected, tableExists, response,
                   weather_data, records, worker, workerArg, xlsxFile, stdout,
                   exitStatus, cycles, table0, tableExists0>>

\* asyncio.sleep(int(frequency)), the minutes taken for seconds
SleepArgumentRaw(f) == PyInt(f.text).val

\* int(frequency) * 60
SleepArgument(f) == PyInt(f.text).val * SecondsPerMinute

\* print(...); await asyncio.sleep(int(frequency) * 60): up to the suspension
PrintAndSleep ==
    /\ pc = "print"
    /\ stdout' = Append(stdout, InsertedNotice)
    /\ IF PyInt(frequency.text).ok
       THEN /\ events' = events \o << Ev("print", 0), Ev("sleep", SleepArgument(frequency)) >>
            /\ pc' = "sleeping"
            /\ Running
       ELSE /\ events' = Append(events, Ev("print", 0))
            /\ Terminate("exception", IntValueError)
    /\ UNCHANGED <<frequency, export_to_xlsx, connected, tableExists, table, nextId,
                   response, weather_data, records, worker, workerArg, xlsxFile,
                   exitStatus, cycles, table0, tableExists0>>

\* the sleep is over: while True goes round
WakeUp ==
    /\ pc = "sleeping"
    /\ pc' = "fetch"
    /\ cycles' = cycles + 1
    /\ UNCHANGED <<frequency, export_to_xlsx, connected, tableExists, table, nextId,
                   response, weather_data, records, worker, workerArg, xlsxFile,
                   stdout, exitKind, exitMessage, exitStatus, events, table0,
                   tableExists0>>

\* asyncio.run(main()) is left: the loop is closed, which waits for the
\* executor thread, and the process ends with its status.
AsyncioRunExit ==
    /\ pc = "finishing"
    /\ worker # "running"
    /\ pc' = "exited"
    /\ exitStatus' = IF exitKind = "return" THEN 0 ELSE 1
    /\ UNCHANGED <<frequency, export_to_xlsx, connected, tableExists, table, nextId,
                   response, weather_data, records, worker, workerArg, xlsxFile,
                   stdout, exitKind, exitMessage, cycles, events, table0,
                   tableExists0>>

Next ==
    \/ GetCliArgs /\ UNCHANGED convVars
    \/ AsyncGetConnection /\ UNCHANGED convVars
    \/ ExportBranch /\ UNCHANGED convVars
    \/ ExportWorker /\ UNCHANGED convVars
    \/ AsyncCreateTable /\ UNCHANGED convVars
    \/ AsyncGetWeatherData /\ UNCHANGED convVars
    \/ AsyncInsertDataIntoDb /\ UNCHANGED convVars
    \/ PrintAndSleep /\ UNCHANGED convVars
    \/ WakeUp /\ UNCHANGED convVars
    \/ AsyncioRunExit /\ UNCHANGED convVars

Spec == Init /\ [][Next]_vars

\* The process is scheduled as long as it has a step to take.
FairSpec == Spec /\ WF_vars(Next)

(***************************************************************************)
(* The translators on their own: one call on one JSON value.               *)
(***************************************************************************)
JsonValues ==
    { JStr(c) : c \in {"nw", "n", "ne", "e", "se", "s", "sw", "w", "c",
                       "", "N", "nn", "x", "0", "1", "0.25"} }
    \cup { JInt(n) : n \in -1..5 }
    \cup { JFloat(h) : h \in {0, 25, 30, 50, 75, 100, 125, 200, 400} }
    \cup { JBool(b) : b \in BOOLEAN }
    \cup { JNull }

InitConv ==
    /\ InitMain
    /\ frequency = NotGiven /\ ~export_to_xlsx /\ ~tableExists
    /\ convFn = "none"
    /\ convArg \in JsonValues
    /\ convRet = None

CallConvertWindDirection ==
    /\ convFn = "none"
    /\ convFn' = "convert_wind_direction"
    /\ convRet' = convert_wind_direction(convArg)
    /\ UNCHANGED convArg

CallConvertPrecipitationType ==
    /\ convFn = "none"
    /\ convFn' = "convert_precipitation_type"
    /\ convRet' = convert_precipitation_type(convArg)
    /\ UNCHANGED convArg

CallConvertPrecipitationStrength ==
    /\ convFn = "none"
    /\ convFn' = "convert_precipitation_strength"
    /\ convRet' = convert_precipitation_strength(convArg)
    /\ UNCHANGED convArg

NextConv ==
    \/ CallConvertWindDirection /\ UNCHANGED mainVars
    \/ CallConvertPrecipitationType /\ UNCHANGED mainVars
    \/ CallConvertPrecipitationStrength /\ UNCHANGED mainVars

SpecConv == InitConv /\ [][NextConv]_vars

(***************************************************************************)
(* Properties.                                                             *)
(***************************************************************************)
\* how many times an effect is in the history
Ops(op) == Cardinality({k \in 1..Len(events) : events[k].op = op})

Printed(notice) == \E k \in 1..Len(stdout) : stdout[k] = notice

Ended == pc \in {"finishing", "exited"}

\* the flags as typed: -f absent or with an empty value counts as not set
FrequencySet == frequency.given /\ frequency.text # << >>

\* causes of death outside main's own logic: the connection or the fetch failed
ConnectOrFetchFailures ==
    {ConfigMsg, WeatherServiceMsg, FactKeyError, FloatError} \cup TransportErrors

\* C1: started with neither the frequency flag nor the export flag, the
\* process ends with the usage message and a non-zero status, and nothing
\* else has happened: no connection, no table created, no fetch, no insert,
\* no spreadsheet, nothing printed.
C1_UsageExitBeforeAnyEffect ==
    (~FrequencySet /\ ~export_to_xlsx) =>
        /\ events = << >>
        /\ ~connected
        /\ tableExists = tableExists0 /\ table = table0
        /\ response = NoResponse
        /\ worker = "idle" /\ ~xlsxFile.exists
        /\ stdout = << >>
        /\ pc \in {"start", "finishing", "exited"}
        /\ Ended => exitKind = "SystemExit" /\ exitMessage = UsageMsg
        /\ pc = "exited" => exitStatus # 0

C1_Witness ==
    ~FrequencySet /\ ~export_to_xlsx /\ pc = "exited" /\ exitStatus = 1

\* C2: on every database holding fewer than 10 records, the table never
\* created included, the export branch prints the "not enough data" notice,
\* writes no spreadsheet and finishes normally.
C2_FewRecordsGiveNotice ==
    (export_to_xlsx /\ Cardinality(table0) < MinRecords /\ Ops("export") = 1) =>
        /\ Printed(NotEnoughNotice)
        /\ ~xlsxFile.exists /\ worker = "idle"
        /\ exitMessage # UndefinedTableError

\* the rows a table's n newest insertions made, newest first, by the history
\* field alone
NewerThan(tbl, r) == Cardinality({q \in tbl : q.ins > r.ins})

NewestFirst(tbl, n) ==
    [i \in 1..n |->
        LET r == CHOOSE q \in tbl : NewerThan(tbl, q) = i - 1
        IN  << r.temperature, r.wind_direction, r.wind_speed, r.pressure,
               r.precipitation_type, r.precipitation_strength >>]

TenLastExpected(tbl) ==
    IF Cardinality(tbl) < 10 THEN << >> ELSE NewestFirst(tbl, 10)

\* C3: after any sequence of inserts async_get_ten_last_records gives the
\* empty list when fewer than 10 rows are stored and otherwise the 10 most
\* recently inserted rows, newest first, each with its six fields in column
\* order; never 1 to 9 rows.  Stated of the query on the table the process
\* starts on and on the table after every insert, and of the result the
\* export branch got.
C3_TenLastRecords ==
    /\ (tableExists /\ pc \in {"start", "print"}) =>
          LET got == async_get_ten_last_records(table)
          IN  /\ got = TenLastExpected(table)
              /\ Len(got) \in {0, 10}
              /\ \A i \in 1..Len(got) : Len(got[i]) = 6
    /\ (pc = "ingest" /\ Ops("export") = 1) =>
          /\ records = TenLastExpected(table0)
          /\ Len(records) \in {0, 10}
          /\ \A i \in 1..Len(records) : Len(records[i]) = 6

C3_Witness ==
    /\ Ops("export") = 1 /\ Len(records) = 10
    /\ pc = "print" /\ Cardinality(table) > 10

\* C4: with both flags and at least 10 rows stored, the spreadsheet is
\* written before the success notice is printed, before the table is ensured
\* and before the first fetch.
C4_ExportCompleteBeforeIngestion ==
    (export_to_xlsx /\ FrequencySet /\ Cardinality(table0) >= MinRecords) =>
        /\ Printed(SuccessNotice) => worker = "saved" /\ xlsxFile.exists
        /\ Ops("create_table") + Ops("fetch") > 0 => worker = "saved"

PositiveFrequency ==
    frequency \in {Given(<<"1">>), Given(<<"1", "5">>), Given(<<" ", "2">>)}

Minutes ==
    IF frequency = Given(<<"1">>) THEN 1
    ELSE IF frequency = Given(<<"1", "5">>) THEN 15 ELSE 2

\* the k-th effect of an ingestion-only run
IngestionEvent(k) ==
    IF k = 1 THEN Ev("connect", 0)
    ELSE IF k = 2 THEN Ev("create_table", 0)
    ELSE CASE (k - 3) % 4 = 0 -> Ev("fetch", 0)
           [] (k - 3) % 4 = 1 -> Ev("insert", 0)
           [] (k - 3) % 4 = 2 -> Ev("print", 0)
           [] (k - 3) % 4 = 3 -> Ev("sleep", 60 * Minutes)

\* C5: with only the frequency flag, a positive integer f, the process does
\* not end unless the connection or a fetch fails; it ensures the table once
\* and then goes fetch, insert, print, sleep(f minutes) over and over, each
\* insert adding exactly one row.
C5_IngestionLoop ==
    (PositiveFrequency /\ ~export_to_xlsx) =>
        /\ \A k \in 1..Len(events) : events[k] = IngestionEvent(k)
        /\ Cardinality(table) = Cardinality(table0) + Ops("insert")
        /\ Len(stdout) = Ops("print")
        /\ Ops("insert") > 0 => tableExists
        /\ exitKind # "return"
        /\ Ended => exitMessage \in ConnectOrFetchFailures

C5_Witness ==
    /\ PositiveFrequency /\ ~export_to_xlsx
    /\ Ops("insert") = 2 /\ Ops("sleep") >= 1 /\ ~Ended

\* C6: with only the export flag the export branch is performed once and
\* the process ends; no table is created, nothing is fetched, and the
\* stored rows stay what they were.
C6_ExportOnly ==
    /\ []((export_to_xlsx /\ ~FrequencySet) =>
            /\ Ops("create_table") = 0 /\ Ops("fetch") = 0 /\ Ops("insert") = 0
            /\ tableExists = tableExists0 /\ table = table0
            /\ response = NoResponse
            /\ Ops("export") <= 1
            /\ (pc = "exited" /\ connected) => Ops("export") = 1)
    /\ ((export_to_xlsx /\ ~FrequencySet) ~> (pc = "exited"))

C6_Witness ==
    /\ export_to_xlsx /\ ~FrequencySet
    /\ pc = "exited" /\ Ops("export") = 1 /\ exitKind = "return"

\* the labels of the three coded fields
WindLabel ==
    [c \in {"nw", "n", "ne", "e", "se", "s", "sw", "w", "c"} |->
        CASE c = "nw" -> "Cevero-zapadnoe" [] c = "n" -> "Severnoe"
          [] c = "ne" -> "Severno-vostochnoe" [] c = "e" -> "Vostochnoe"
          [] c = "se" -> "Yugo-vostochnoe" [] c = "s" -> "Yuzhnoe"
          [] c = "sw" -> "Yugo-zapadnoe" [] c = "w" -> "Zapadnoe"
          [] c = "c" -> "Shtil'"]

TypeLabel ==
    [h \in {0, 100, 200, 300, 400} |->
        CASE h = 0 -> "Bez osadkov" [] h = 100 -> "Dozhd'"
          [] h = 200 -> "Dozhd' so snegom" [] h = 300 -> "Sneg" [] h = 400 -> "Grad"]

StrengthLabel ==
    [h \in {0, 25, 50, 75, 100} |->
        CASE h = 0 -> "Bez osadkov" [] h = 25 -> "Slabye osadki"
          [] h = 50 -> "Ryadovye osadki" [] h = 75 -> "Sil'nye osadki"
          [] h = 100 -> "Ochen' sil'nye osadki"]

\* a value is a code of the domain when it equals one: a string for the wind,
\* a number of that value for the two others
InWindDomain(a) == a.t = "str" /\ a.v \in DOMAIN WindLabel
InTypeDomain(a) == IsNumber(a) /\ a.v \in DOMAIN TypeLabel
InStrengthDomain(a) == IsNumber(a) /\ a.v \in DOMAIN StrengthLabel

\* C7: each translator gives the label of every code of its domain and
\* None, without raising, for every other value.
C7_Translators ==
    /\ convFn = "convert_wind_direction" =>
          convRet = IF InWindDomain(convArg) THEN WindLabel[convArg.v] ELSE None
    /\ convFn = "convert_precipitation_type" =>
          convRet = IF InTypeDomain(convArg) THEN TypeLabel[convArg.v] ELSE None
    /\ convFn = "convert_precipitation_strength" =>
          convRet = IF InStrengthDomain(convArg) THEN StrengthLabel[convArg.v] ELSE None

C7_Witness ==
    /\ convFn = "convert_wind_direction" /\ convArg = JStr("nn") /\ convRet = None

\* C8: a transport error of the weather request ends the process with the
\* weather-service message, with no row inserted for that cycle.
C8_FetchFailureGivesMessage ==
    response.kind \in TransportErrors =>
        /\ exitKind = "SystemExit" /\ exitMessage = WeatherServiceMsg
        /\ Ops("insert") = Ops("fetch") - 1

\* the fact of the last response has a code outside a translator's domain
UnknownWind == ~InWindDomain(Facts[response.fact].wind_dir)
UnknownType == ~InTypeDomain(Facts[response.fact].prec_type)
UnknownStrength == ~InStrengthDomain(Facts[response.fact].prec_strength)

UnknownCode ==
    /\ response.kind = "response"
    /\ ~ParseRaises(Facts[response.fact])
    /\ UnknownWind \/ UnknownType \/ UnknownStrength

NewestRow == CHOOSE r \in table : NewerThan(table, r) = 0

\* C9: a response with a code outside a translator's domain does not make
\* the cycle fail: the record has its six keys in order with None in that
\* field, it is inserted as one row, and the loop goes on.
C9_UnknownCodeStillInserted ==
    UnknownCode =>
        /\ [i \in 1..Len(weather_data) |-> weather_data[i].key] = FieldNames
        /\ UnknownWind => weather_data[2].value = None
        /\ UnknownType => weather_data[5].value = None
        /\ UnknownStrength => weather_data[6].value = None
        /\ Ended => exitMessage = IntValueError
        /\ pc # "insert" =>
              /\ Ops("insert") = Ops("fetch")
              /\ Cardinality(table) = Cardinality(table0) + Ops("insert")
              /\ NewestRow.id = nextId - 1
              /\ UnknownWind => NewestRow.wind_direction = None
              /\ UnknownType => NewestRow.precipitation_type = None
              /\ UnknownStrength => NewestRow.precipitation_strength = None
              /\ NewestRow.temperature = weather_data[1].value

C9_Witness ==
    /\ UnknownCode /\ pc = "insert" /\ cycles >= 1
    /\ \E r \in table \ table0 :
          None \in {r.wind_direction, r.precipitation_type, r.precipitation_strength}

NotAnInteger == frequency \in {Given(<<"a">>), Given(<<"1", ".", "5">>)}

\* C10: with a frequency text that is no integer, the text is converted only
\* at the first sleep: unless the connection, the export or the first fetch
\* fails, the table is created and exactly one row inserted before the
\* process dies of the conversion; there is no sleep and no second cycle.
C10_LateFrequencyConversion ==
    NotAnInteger =>
        /\ Ops("insert") <= 1 /\ Ops("fetch") <= 1
        /\ Ops("sleep") = 0 /\ cycles = 0 /\ pc # "sleeping"
        /\ exitKind # "return"
        /\ Ended =>
              \/ /\ exitMessage = IntValueError
                 /\ Ops("create_table") = 1 /\ tableExists
                 /\ Ops("insert") = 1
                 /\ Cardinality(table) = Cardinality(table0) + 1
              \/ /\ exitMessage \in ConnectOrFetchFailures \cup {UndefinedTableError}
                 /\ Ops("insert") = 0

C10_Witness ==
    /\ NotAnInteger /\ pc = "exited" /\ exitMessage = IntValueError
    /\ Ops("insert") = 1

====
